---------------------------- MODULE Spec2Model ----------------------------
(***************************************************************************)
(* Model of src/src/v0.001.py: the daily agenda PDF generator.             *)
(*                                                                         *)
(* build_agenda_pdf is a linear pipeline: compute [start, Dec 31], pick a  *)
(* font, open a canvas, draw one page per day (grid, header, optional page *)
(* number, showPage), save, print.  The program counter pc walks through   *)
(* that pipeline; the canvas is modelled by the drawing calls it receives. *)
(*                                                                         *)
(* Lengths are in PDF points.  A4 is (595.27..., 841.88...) points; every  *)
(* loop of the program compares an integer cursor against these values, so *)
(* the comparisons are unchanged when the page size is floored.            *)
(***************************************************************************)
EXTENDS Integers, Sequences, FiniteSets, TLC

VARIABLES
    start,                 \* line 133: first day of the agenda
    end,                   \* line 134: Dec 31 of start's year
    spacing,               \* parameter: grid spacing
    header_font_size,      \* parameter: header font size
    include_page_numbers,  \* parameter: draw the page number or not
    top_margin,            \* parameter: height of the header band
    pc,                    \* position in build_agenda_pdf
    cand,                  \* register_readable_font: index of the candidate tried next
    tried,                 \* what the file system answered for each candidate tried
    font_name,             \* line 136: the resolved font
    current,               \* line 141: date cursor
    page_num,              \* line 140: page counter
    x,                     \* draw_grid: cursor of the vertical-line loop
    lines,                 \* cnv.line calls on the page being drawn
    texts,                 \* cnv.drawString calls on the page being drawn
    ops,                   \* drawing functions called on the page being drawn, with the text drawn
    doc,                   \* pages closed by showPage, in order
    saved,                 \* number of successful cnv.save() calls
    printed,               \* number of confirmation lines printed
    error                  \* the exception that ended the run and the line raising it

vars == <<start, end, spacing, header_font_size, include_page_numbers,
          top_margin, pc, cand, tried, font_name, current, page_num, x,
          lines, texts, ops, doc, saved, printed, error>>

---------------------------------------------------------------------------
(* Bounds of the model *)

\* start dates include the last TailDays days of every modelled year
TailDays == 3
\* cnv.line calls unfolded from a draw_grid loop that never exits
GridCap == 3

\* years whose January 1 is a start date (a leap and a non-leap year)
FullYears == {2024, 2025}
\* years whose last days are start dates
Years == FullYears \cup {9999}

SpacingChoices == {-20, 0, 20}
FontSizeChoices == {0, 40}
TopMarginChoices == {100}

---------------------------------------------------------------------------
(* Configuration, lines 35-47 *)

SPANISH_WEEKDAYS ==
    <<"Lunes", "Martes", "Miércoles", "Jueves", "Viernes", "Sábado", "Domingo">>

SPANISH_MONTHS ==
    <<"Enero", "Febrero", "Marzo", "Abril", "Mayo", "Junio",
      "Julio", "Agosto", "Septiembre", "Octubre", "Noviembre", "Diciembre">>

FALLBACK_FONT == "Helvetica"

FONT_CANDIDATES ==
    << [name |-> "DejaVuSans", path |-> "/usr/share/fonts/truetype/dejavu/DejaVuSans.ttf"],
       [name |-> "FreeSans",   path |-> "/usr/share/fonts/truetype/freefont/FreeSans.ttf"],
       [name |-> "Arial",      path |-> "/usr/share/fonts/truetype/msttcorefonts/Arial.ttf"],
       [name |-> "Arial",      path |-> "Arial.ttf"] >>

\* A4, floored to whole points (line 138)
PAGE_W == 595
PAGE_H == 841

\* draw_page_number defaults (line 116)
PAGE_NUMBER_FONT_SIZE == 10
BOTTOM_MARGIN == 20

\* header offset inside the header band (line 148: top_margin - 30)
HEADER_INSET == 30

---------------------------------------------------------------------------
(* datetime.date, as build_agenda_pdf uses it *)

\* largest year a date can hold
MAXYEAR == 9999

Date(y, m, d) == [year |-> y, month |-> m, day |-> d]

is_leap(y) == y % 4 = 0 /\ (y % 100 # 0 \/ y % 400 = 0)

DAYS_IN_MONTH == <<31, 28, 31, 30, 31, 30, 31, 31, 30, 31, 30, 31>>

days_in_month(y, m) == IF m = 2 /\ is_leap(y) THEN 29 ELSE DAYS_IN_MONTH[m]

RECURSIVE days_before_month(_, _)
days_before_month(y, m) ==
    IF m = 1 THEN 0 ELSE days_before_month(y, m - 1) + days_in_month(y, m - 1)

days_before_year(y) ==
    LET p == y - 1 IN p * 365 + (p \div 4) - (p \div 100) + (p \div 400)

\* date.toordinal(): days since 0001-01-01, that day being 1
toordinal(d) == days_before_year(d.year) + days_before_month(d.year, d.month) + d.day

MAXORDINAL == toordinal(Date(MAXYEAR, 12, 31))

\* date.fromordinal(n), by 400-, 100-, 4- and 1-year cycles
fromordinal(n) ==
    LET di400 == days_before_year(401)
        di100 == days_before_year(101)
        di4   == days_before_year(5)
        n0    == n - 1
        n400  == n0 \div di400
        r400  == n0 % di400
        n100  == r400 \div di100
        r100  == r400 % di100
        n4    == r100 \div di4
        r4    == r100 % di4
        n1    == r4 \div 365
        r1    == r4 % 365
        year  == n400 * 400 + 1 + n100 * 100 + n4 * 4 + n1
        leap  == n1 = 3 /\ (n4 # 24 \/ n100 = 3)
        m0    == (r1 + 50) \div 32
        p0    == days_before_month(IF leap THEN 4 ELSE 1, m0)
        month == IF p0 > r1 THEN m0 - 1 ELSE m0
        prec  == days_before_month(IF leap THEN 4 ELSE 1, month)
    IN  IF n1 = 4 \/ n100 = 4
        THEN Date(year - 1, 12, 31)
        ELSE Date(year, month, r1 - prec + 1)

\* a cursor advanced twice per iteration
date_add_twice(d, k) == fromordinal(toordinal(d) + k + k)

\* d + timedelta(days = k), defined while the result is a date
date_add(d, k) == fromordinal(toordinal(d) + k)

\* d + timedelta(days = k) raises OverflowError
date_add_overflows(d, k) ==
    LET o == toordinal(d) + k IN ~(0 < o /\ o <= MAXORDINAL)

\* d1 <= d2
date_le(d1, d2) ==
    \/ d1.year < d2.year
    \/ d1.year = d2.year /\ d1.month < d2.month
    \/ d1.year = d2.year /\ d1.month = d2.month /\ d1.day <= d2.day

\* date.weekday(): Monday = 0 .. Sunday = 6
weekday(d) == (toordinal(d) + 6) % 7

---------------------------------------------------------------------------
(* Date utilities, lines 74-83 *)

end_of_year(d) == Date(d.year, 12, 31)

\* the weekday table indexed Sunday-first
format_date_spanish_sunday_first(d) ==
    LET wd    == SPANISH_WEEKDAYS[((weekday(d) + 1) % 7) + 1]
        month == SPANISH_MONTHS[d.month - 1 + 1]
    IN  wd \o " " \o ToString(d.day) \o " " \o month \o " " \o ToString(d.year)

format_date_spanish(d) ==
    LET wd    == SPANISH_WEEKDAYS[weekday(d) + 1]
        month == SPANISH_MONTHS[d.month - 1 + 1]
    IN  wd \o " " \o ToString(d.day) \o " " \o month \o " " \o ToString(d.year)

---------------------------------------------------------------------------
(* PDF drawing, lines 88-121 *)

\* a cnv.line(x1, y1, x2, y2) call
Line(x1, y1, x2, y2) == [x1 |-> x1, y1 |-> y1, x2 |-> x2, y2 |-> y2]

\* the vertical-line loop of draw_grid from cursor cx on (lines 95-97)
RECURSIVE vertical_lines(_, _, _, _)
vertical_lines(cx, page_w, page_h, sp) ==
    IF cx <= page_w
    THEN <<Line(cx, 0, cx, page_h)>> \o vertical_lines(cx + sp, page_w, page_h, sp)
    ELSE <<>>

\* the horizontal-line loop of draw_grid from cursor cy on (lines 102-104)
RECURSIVE horizontal_lines(_, _, _, _)
horizontal_lines(cy, page_w, stop_y, sp) ==
    IF cy <= stop_y
    THEN <<Line(0, cy, page_w, cy)>> \o horizontal_lines(cy + sp, page_w, stop_y, sp)
    ELSE <<>>

\* draw_grid with a positive spacing: both loops run to their end
draw_grid(page_w, page_h, sp, tm) ==
    vertical_lines(0, page_w, page_h, sp)
        \o horizontal_lines(0, page_w, page_h - tm, sp)

\* the drawString call of draw_centered_text_top; the left x depends on the
\* font metrics (stringWidth) and is not part of the record
draw_centered_text_top(text, page_h, fname, fsize, top_offset) ==
    [text |-> text, font |-> fname, size |-> fsize, y |-> page_h - top_offset]

\* the drawString call of draw_page_number
draw_page_number(fname, number) ==
    [text |-> ToString(number), font |-> fname,
     size |-> PAGE_NUMBER_FONT_SIZE, y |-> BOTTOM_MARGIN]

---------------------------------------------------------------------------
(* Inputs *)

\* a call of one of the three drawing functions, with the text it draws
Op(op, text) == [op |-> op, text |-> text]

\* a page closed by showPage: the date it was drawn for and the calls made on it
Page(d, calls) == [date |-> d, ops |-> calls]

\* an exception leaving build_agenda_pdf, and the source line that raised it
Raised(type, line) == [type |-> type, line |-> line]
NoError == Raised("none", 0)

LastDays(y) == { Date(y, 12, d) : d \in (31 - TailDays + 1)..31 }

StartDates ==
    { Date(y, 1, 1) : y \in FullYears } \cup UNION { LastDays(y) : y \in Years }

\* what the file system does with one font candidate: the file is missing,
\* registerFont raises, or registerFont succeeds
Outcomes == {"missing", "raises", "ok"}

\* the return placed outside the try: a raising registration still returns
candidate_accepted_unguarded(o) == o # "missing"

\* lines 56-58: the file exists and registerFont returns, so the name is returned
candidate_accepted(o) == o = "ok"

\* a loop that stops one day early
loop_cond_strict(cur, e) == date_le(cur, e) /\ cur # e

\* line 142: while current <= end
loop_cond(cur, e) == date_le(cur, e)

\* a counter stepping by two
next_page_num_skip(n) == n + 2

\* line 154
next_page_num(n) == n + 1

\* a showPage that leaves the page open
page_left_open == ops

\* line 153: showPage closes the page; the canvas continues on an empty one
new_page == <<>>

\* an exception of save() swallowed, the run going on to line 158
save_failure_swallowed == "print"

\* lines 157-158: an exception raised by save() leaves build_agenda_pdf
save_failure_pc == "failed"

---------------------------------------------------------------------------
(* Initial state: build_agenda_pdf entered, lines 133-134 executed *)

Init ==
    /\ start \in StartDates
    /\ end = end_of_year(start)
    /\ spacing \in SpacingChoices
    /\ header_font_size \in FontSizeChoices
    /\ include_page_numbers \in BOOLEAN
    /\ top_margin \in TopMarginChoices
    /\ pc = "font"
    /\ cand = 1
    /\ tried = <<>>
    /\ font_name = "unset"
    /\ current = start
    /\ page_num = 1
    /\ x = 0
    /\ lines = <<>>
    /\ texts = <<>>
    /\ ops = <<>>
    /\ doc = <<>>
    /\ saved = 0
    /\ printed = 0
    /\ error = NoError

params == <<start, end, spacing, header_font_size, include_page_numbers, top_margin>>

---------------------------------------------------------------------------
(* register_readable_font, lines 52-61 *)

\* one iteration of the for loop: the candidate is returned, or skipped
TryCandidate ==
    /\ pc = "font"
    /\ cand <= Len(FONT_CANDIDATES)
    /\ \E o \in Outcomes :
        /\ tried' = Append(tried, o)
        /\ IF candidate_accepted(o)
           THEN /\ font_name' = FONT_CANDIDATES[cand].name
                /\ pc' = "canvas"
                /\ cand' = cand
           ELSE /\ cand' = cand + 1
                /\ UNCHANGED <<font_name, pc>>
    /\ UNCHANGED <<params, current, page_num, x, lines, texts, ops, doc,
                   saved, printed, error>>

\* the list is exhausted: return FALLBACK_FONT
FontFallback ==
    /\ pc = "font"
    /\ cand > Len(FONT_CANDIDATES)
    /\ font_name' = FALLBACK_FONT
    /\ pc' = "canvas"
    /\ UNCHANGED <<params, cand, tried, current, page_num, x, lines, texts,
                   ops, doc, saved, printed, error>>

---------------------------------------------------------------------------
(* build_agenda_pdf, lines 137-158 *)

\* lines 137-141: the canvas is created (or its creation raises), the
\* counters are initialised
OpenCanvas ==
    /\ pc = "canvas"
    /\ \E ok \in BOOLEAN :
        IF ok
        THEN /\ pc' = "loop"
             /\ page_num' = 1
             /\ current' = start
             /\ UNCHANGED error
        ELSE /\ pc' = "failed"
             /\ error' = Raised("IOError", 137)
             /\ UNCHANGED <<page_num, current>>
    /\ UNCHANGED <<params, cand, tried, font_name, x, lines, texts, ops, doc,
                   saved, printed>>

\* lines 142-143 with spacing > 0: draw_grid returns
DrawGrid ==
    /\ pc = "loop"
    /\ loop_cond(current, end)
    /\ spacing > 0
    /\ lines' = lines \o draw_grid(PAGE_W, PAGE_H, spacing, top_margin)
    /\ ops' = Append(ops, Op("grid", ""))
    /\ pc' = "header"
    /\ UNCHANGED <<params, cand, tried, font_name, current, page_num, x,
                   texts, doc, saved, printed, error>>

\* lines 142-143 with spacing <= 0: draw_grid is entered and its first loop
\* (line 95) can never exit, as x never grows
EnterGridLoop ==
    /\ pc = "loop"
    /\ loop_cond(current, end)
    /\ spacing <= 0
    /\ x' = 0
    /\ pc' = "grid"
    /\ UNCHANGED <<params, cand, tried, font_name, current, page_num, lines,
                   texts, ops, doc, saved, printed, error>>

\* lines 95-97, one iteration
GridLoopStep ==
    /\ pc = "grid"
    /\ x <= PAGE_W
    /\ Len(lines) < GridCap
    /\ lines' = Append(lines, Line(x, 0, x, PAGE_H))
    /\ x' = x + spacing
    /\ UNCHANGED <<params, pc, cand, tried, font_name, current, page_num,
                   texts, ops, doc, saved, printed, error>>

\* lines 145-148
DrawHeader ==
    /\ pc = "header"
    /\ texts' = Append(texts,
                  draw_centered_text_top(format_date_spanish(current), PAGE_H,
                                         font_name, header_font_size,
                                         top_margin - HEADER_INSET))
    /\ ops' = Append(ops, Op("header", format_date_spanish(current)))
    /\ pc' = "pagenum"
    /\ UNCHANGED <<params, cand, tried, font_name, current, page_num, x,
                   lines, doc, saved, printed, error>>

\* lines 150-151
DrawPageNumber ==
    /\ pc = "pagenum"
    /\ include_page_numbers
    /\ texts' = Append(texts, draw_page_number(font_name, page_num))
    /\ ops' = Append(ops, Op("pagenum", draw_page_number(font_name, page_num).text))
    /\ pc' = "showpage"
    /\ UNCHANGED <<params, cand, tried, font_name, current, page_num, x,
                   lines, doc, saved, printed, error>>

\* lines 153-155: the page is closed, the counters advance; adding a day to
\* the last representable date raises OverflowError
ShowPage ==
    /\ \/ pc = "showpage"
       \/ pc = "pagenum" /\ ~include_page_numbers
    /\ doc' = Append(doc, Page(current, ops))
    /\ lines' = <<>>
    /\ texts' = <<>>
    /\ ops' = new_page
    /\ page_num' = next_page_num(page_num)
    /\ IF date_add_overflows(current, 1)
       THEN /\ pc' = "failed"
            /\ error' = Raised("OverflowError", 155)
            /\ UNCHANGED current
       ELSE /\ pc' = "loop"
            /\ current' = date_add(current, 1)
            /\ UNCHANGED error
    /\ UNCHANGED <<params, cand, tried, font_name, x, saved, printed>>

\* line 157: the loop has ended; save() writes the file or raises
Save ==
    /\ pc = "loop"
    /\ ~loop_cond(current, end)
    /\ \E ok \in BOOLEAN :
        IF ok
        THEN /\ saved' = saved + 1
             /\ pc' = "print"
             /\ UNCHANGED error
        ELSE /\ pc' = save_failure_pc
             /\ error' = Raised("IOError", 157)
             /\ UNCHANGED saved
    /\ UNCHANGED <<params, cand, tried, font_name, current, page_num, x,
                   lines, texts, ops, doc, printed>>

\* line 158
PrintDone ==
    /\ pc = "print"
    /\ printed' = printed + 1
    /\ pc' = "Finalized"
    /\ UNCHANGED <<params, cand, tried, font_name, current, page_num, x,
                   lines, texts, ops, doc, saved, error>>

Next ==
    \/ TryCandidate
    \/ FontFallback
    \/ OpenCanvas
    \/ DrawGrid
    \/ EnterGridLoop
    \/ GridLoopStep
    \/ DrawHeader
    \/ DrawPageNumber
    \/ ShowPage
    \/ Save
    \/ PrintDone

Spec == Init /\ [][Next]_vars


---------------------------------------------------------------------------
(* What the claims are stated with *)

\* the rendering loop has ended: normally, or at the cursor's last increment
RenderingOver ==
    \/ pc \in {"print", "Finalized"}
    \/ pc = "loop" /\ ~loop_cond(current, end)
    \/ pc = "failed" /\ error.line \in {155, 157}

\* the pages a state is checked on: all of them once the loop has ended, the
\* page closed last while it runs
CheckedPages == IF RenderingOver THEN 1..Len(doc) ELSE {Len(doc)} \ {0}

\* days from d to December 31 of d's year, both included, month by month
RECURSIVE DaysOfMonthsFrom(_, _)
DaysOfMonthsFrom(y, m) ==
    IF m > 12 THEN 0 ELSE days_in_month(y, m) + DaysOfMonthsFrom(y, m + 1)

DaysToYearEnd(d) ==
    (days_in_month(d.year, d.month) - d.day + 1) + DaysOfMonthsFrom(d.year, d.month + 1)

\* the day after d on the calendar
CalendarNext(d) ==
    IF d.day < days_in_month(d.year, d.month) THEN Date(d.year, d.month, d.day + 1)
    ELSE IF d.month < 12 THEN Date(d.year, d.month + 1, 1)
    ELSE Date(d.year + 1, 1, 1)

\* the weekday of d, Monday = 0 .. Sunday = 6, by Sakamoto's month offsets
\* (independent of the day count toordinal)
CalendarWeekday(d) ==
    LET t == <<0, 3, 2, 5, 0, 3, 5, 1, 4, 6, 2, 4>>
        y == IF d.month < 3 THEN d.year - 1 ELSE d.year
        sunday0 == (y + (y \div 4) - (y \div 100) + (y \div 400) + t[d.month] + d.day) % 7
    IN  (sunday0 + 6) % 7

\* "<Weekday> <Day> <Month> <Year>"
ExpectedHeader(d) ==
    SPANISH_WEEKDAYS[CalendarWeekday(d) + 1] \o " " \o ToString(d.day) \o " "
        \o SPANISH_MONTHS[d.month] \o " " \o ToString(d.year)

IsHeader(o) == o.op = "header"
IsLabel(o) == o.op = "pagenum"

\* the texts of the calls selected from a page's calls
TextsOf(calls) == [i \in DOMAIN calls |-> calls[i].text]
Labels(calls) == TextsOf(SelectSeq(calls, IsLabel))
Headers(calls) == TextsOf(SelectSeq(calls, IsHeader))
Kinds(calls) == [i \in DOMAIN calls |-> calls[i].op]

\* the order of the drawing calls on one page
PageOrder ==
    IF include_page_numbers THEN <<"grid", "header", "pagenum">> ELSE <<"grid", "header">>

IsPrefix(s, t) == Len(s) <= Len(t) /\ SubSeq(t, 1, Len(s)) = s

---------------------------------------------------------------------------
\* C1: the number of pages closed by showPage is never more than the number of
\* days from the start date to December 31 of its year, and equals it once the
\* loop has ended: 1 for a December 31, 365 for January 1 of a non-leap year,
\* 366 for January 1 of a leap year.
C1_PageCount ==
    /\ Len(doc) <= DaysToYearEnd(start)
    /\ RenderingOver =>
        /\ Len(doc) = DaysToYearEnd(start)
        /\ (start.month = 12 /\ start.day = 31) => Len(doc) = 1
        /\ (start.month = 1 /\ start.day = 1) =>
              Len(doc) = IF is_leap(start.year) THEN 366 ELSE 365

C1_Witness ==
    /\ pc = "Finalized"
    /\ start = Date(2024, 1, 1)
    /\ Len(doc) = 366

\* C2: with page numbers, the k-th page carries exactly one page-number label,
\* the decimal string of k; without, no page carries a label and
\* draw_page_number is never called.
C2_PageLabels ==
    /\ \A k \in CheckedPages :
          Labels(doc[k].ops) = IF include_page_numbers THEN <<ToString(k)>> ELSE <<>>
    /\ Labels(ops) \in {<<>>, <<ToString(Len(doc) + 1)>>}
    /\ ~include_page_numbers => Labels(ops) = <<>> /\ pc # "showpage"

C2_Witness ==
    /\ pc = "Finalized"
    /\ include_page_numbers
    /\ Len(doc) = 365
    /\ Labels(doc[365].ops) = <<"365">>
    /\ Labels(doc[10].ops) = <<"10">>

\* C3: the first page is drawn for the start date, every later page for the
\* calendar day after the page before it, and once the loop has ended the last
\* page is drawn for December 31 of the start date's year; every page's header
\* is the header of its date.
C3_ContiguousDates ==
    /\ Len(doc) >= 1 => doc[1].date = start
    /\ \A k \in CheckedPages :
          /\ k > 1 => doc[k].date = CalendarNext(doc[k - 1].date)
          /\ Headers(doc[k].ops) = <<ExpectedHeader(doc[k].date)>>
    /\ RenderingOver => doc[Len(doc)].date = Date(start.year, 12, 31)
    /\ (pc \in {"loop", "header", "pagenum", "showpage"} /\ Len(doc) >= 1) =>
          current = CalendarNext(doc[Len(doc)].date)

C3_Witness ==
    /\ pc = "Finalized"
    /\ start = Date(2024, 1, 1)
    /\ doc[60].date = Date(2024, 2, 29)
    /\ doc[61].date = Date(2024, 3, 1)
    /\ doc[Len(doc)].date = Date(2024, 12, 31)

\* C4: the header drawn for a date is "<Weekday> <Day> <Month> <Year>", the
\* weekday name taken at the date's weekday index (Monday = 0), the month name
\* at its month, the day without a leading zero; the two table indices are in
\* range; 2025-08-28 gives "Jueves 28 Agosto 2025" and 2025-01-01 gives
\* "Miércoles 1 Enero 2025".
C4_SpanishFormat ==
    /\ weekday(current) \in 0..6
    /\ weekday(current) + 1 \in DOMAIN SPANISH_WEEKDAYS
    /\ current.month - 1 + 1 \in DOMAIN SPANISH_MONTHS
    /\ Headers(ops) \in {<<>>, <<ExpectedHeader(current)>>}
    /\ pc \in {"pagenum", "showpage"} =>
          /\ Headers(ops) = <<ExpectedHeader(current)>>
          /\ current = Date(2025, 8, 28) => Headers(ops) = <<"Jueves 28 Agosto 2025">>
          /\ current = Date(2025, 1, 1) => Headers(ops) = <<"Miércoles 1 Enero 2025">>
          /\ current = Date(2024, 2, 29) => Headers(ops) = <<"Jueves 29 Febrero 2024">>

C4_Witness ==
    /\ pc = "pagenum"
    /\ current = Date(2025, 8, 28)
    /\ Headers(ops) = <<"Jueves 28 Agosto 2025">>

\* C5: the font resolved is the name of the first candidate whose file exists
\* and whose registration succeeds; a missing file or a raising registration
\* moves on to the next candidate and never ends the run; with no such
\* candidate the font is "Helvetica", and the run goes on to render.
FirstOk(t) == CHOOSE i \in DOMAIN t : t[i] = "ok" /\ \A j \in 1..(i - 1) : t[j] # "ok"

C5_FontResolution ==
    /\ pc = "font" =>
          /\ \A i \in DOMAIN tried : tried[i] # "ok"
          /\ cand = Len(tried) + 1
          /\ error = NoError
    /\ pc # "font" =>
          IF \E i \in DOMAIN tried : tried[i] = "ok"
          THEN /\ Len(tried) = FirstOk(tried)
               /\ font_name = FONT_CANDIDATES[FirstOk(tried)].name
          ELSE /\ Len(tried) = Len(FONT_CANDIDATES)
               /\ font_name = "Helvetica"
    /\ error # NoError => error.line >= 137
    /\ \A i \in DOMAIN texts : texts[i].font = font_name

C5_Witness ==
    /\ pc = "Finalized"
    /\ tried = <<"missing", "raises", "missing", "raises">>
    /\ font_name = "Helvetica"
    /\ saved = 1
    /\ Len(doc) = 3

\* C6: with a positive spacing, font size and top margin, no line drawn by
\* draw_grid has a point above page_h - top_margin.
C6_GridBelowHeaderBand ==
    (top_margin > 0 /\ spacing > 0 /\ header_font_size > 0) =>
        \A i \in DOMAIN lines :
            /\ lines[i].y1 <= PAGE_H - top_margin
            /\ lines[i].y2 <= PAGE_H - top_margin

\* C7: the run goes Initializing -> Rendering -> Finalized; on every page the
\* calls come in the order grid, header, page number (when asked for), and the
\* page is closed by showPage before the next page is drawn on; the document
\* is saved at most once, only after the last page was closed, and nothing is
\* drawn after that; a run that reaches Finalized has saved exactly once.
C7_PipelineOrder ==
    /\ IsPrefix(Kinds(ops), PageOrder)
    /\ \A k \in CheckedPages : Kinds(doc[k].ops) = PageOrder
    /\ pc \in {"font", "canvas"} => doc = <<>> /\ ops = <<>> /\ lines = <<>> /\ saved = 0
    /\ pc = "header" => Kinds(ops) = <<"grid">>
    /\ pc = "pagenum" => Kinds(ops) = <<"grid", "header">>
    /\ pc = "showpage" => Kinds(ops) = PageOrder
    /\ pc = "loop" => ops = <<>> /\ lines = <<>> /\ texts = <<>>
    /\ saved <= 1
    /\ saved = 1 =>
          /\ pc \in {"print", "Finalized"}
          /\ ops = <<>> /\ lines = <<>> /\ texts = <<>>
          /\ ~date_le(current, end)
          /\ Len(doc) = DaysToYearEnd(start)
    /\ pc = "Finalized" => saved = 1

C7_Witness ==
    /\ pc = "Finalized"
    /\ saved = 1
    /\ include_page_numbers
    /\ Len(doc) = 2
    /\ Kinds(doc[1].ops) = <<"grid", "header", "pagenum">>
    /\ Kinds(doc[2].ops) = <<"grid", "header", "pagenum">>

\* C8: the confirmation line is printed at most once and only after save has
\* succeeded; an I/O error raised when the canvas is opened or saved ends the
\* run as a failure, not Finalized, with nothing saved and nothing printed.
C8_ConfirmationOnlyOnSuccess ==
    /\ printed <= 1
    /\ printed = 1 <=> pc = "Finalized"
    /\ printed = 1 => saved = 1 /\ error = NoError
    /\ pc = "print" => saved = 1 /\ error = NoError
    /\ error # NoError <=> pc = "failed"
    /\ error.type = "IOError" => saved = 0 /\ printed = 0 /\ pc = "failed"

C8_Witness ==
    /\ pc = "failed"
    /\ error = Raised("IOError", 157)
    /\ Len(doc) = DaysToYearEnd(start)
    /\ printed = 0

\* C9: with a positive spacing (and font size), a run that has ended has run
\* the loop between 1 and 366 times and has either reached Finalized or failed
\* on an I/O error.
C9_EndsFinalizedOrIOError ==
    (spacing > 0 /\ header_font_size > 0 /\ pc \in {"Finalized", "failed"}) =>
        /\ pc = "Finalized" \/ error.type = "IOError"
        /\ error.line # 137 => Len(doc) \in 1..366

\* C10: with a non-positive spacing or a non-positive header font size
\* nothing is ever rendered: no line or text is drawn, no drawing function
\* returns, no page is closed, nothing is saved, the run never completes.
C10_InvalidConfigFailsFast ==
    (spacing <= 0 \/ header_font_size <= 0) =>
        /\ lines = <<>> /\ texts = <<>> /\ ops = <<>> /\ doc = <<>>
        /\ saved = 0
        /\ pc \notin {"print", "Finalized"}

=============================================================================
